---- MODULE Spec2Model ----
(***************************************************************************)
(* Model of the analytical pipeline of src/EKYC.py (Dashboard Monitoring   *)
(* Verifikasi NIK).  One run of the script is a sequence of steps over the *)
(* loaded frame df: filter, KPIs, source performance, field accuracy,      *)
(* hourly buckets, peak hour, hourly anomaly, same-app pattern, status     *)
(* degradation, rapid fire, cross-source inconsistency, insights.          *)
(*                                                                         *)
(* A row of the frame is a record                                          *)
(*   [Id, Nik, CreatedDate, SourceResult, SourceApps, st]                  *)
(* where CreatedDate is a number of seconds, or NaT for a value that       *)
(* pd.to_datetime(errors="coerce") could not parse, and st maps each of    *)
(* status_cols to its status string.  Nik is never null (the input         *)
(* contract of the log).  Fractions the script computes in floating point  *)
(* are kept exact as records [num, den].                                  *)
(***************************************************************************)
EXTENDS Integers, Sequences, FiniteSets, TLC

VARIABLES df, source_filter, date_range, pc, raised, df_f, classification,
          nik_counts, kpi, source_perf, field_df, hourly, peak_hour,
          same_app_suspicious, df_nik_check, degradation_results,
          df_f_sorted, rapid_fire, rapid_summary, cross_inconsistency, insights,
          runs, prev_degradation

vars == <<df, source_filter, date_range, pc, raised, df_f, classification,
          nik_counts, kpi, source_perf, field_df, hourly, peak_hour,
          same_app_suspicious, df_nik_check, degradation_results,
          df_f_sorted, rapid_fire, rapid_summary, cross_inconsistency, insights,
          runs, prev_degradation>>

-----------------------------------------------------------------------------
(* Program constants *)

status_cols == <<"NamaDenganGelar", "Nama", "JenisKelamin", "TempatLahir",
                 "TglLahir", "Provinsi", "Kabupaten", "Kecamatan", "Kelurahan">>

StatusFields == {status_cols[k] : k \in 1..Len(status_cols)}

\* The three status strings in the order Python compares them
\* ("-" < "Sesuai" < "Tidak Sesuai").
StatusOrder == <<"-", "Sesuai", "Tidak Sesuai">>

\* The SourceResult strings in the order Python compares them.
SourceOrder == <<"BCA", "DB_CACHE", "DUKCAPIL">>

RapidFireSeconds == 5
HighRiskHits == 5
SameAppHits == 3
AnomalySigmas == 2
LowEfficiencyPct == 80
LowAccuracyPct == 80
HighDuplicatePct == 30

NaT == -1

DaySeconds == 24 * 60 * 60
HourSeconds == 60 * 60

\* Series.dt.date and Series.dt.hour of a parsed timestamp.
DateOf(t) == t \div DaySeconds
HourOf(t) == (t \div HourSeconds) % 24

-----------------------------------------------------------------------------
(* Generic helpers on sequences *)

Range(s) == {s[i] : i \in 1..Len(s)}

\* The values of a function.
Range2(f) == {f[x] : x \in DOMAIN f}

RECURSIVE SumSeq(_)
SumSeq(s) == IF s = <<>> THEN 0 ELSE Head(s) + SumSeq(Tail(s))

RankIn(order, x) == CHOOSE k \in 1..Len(order) : order[k] = x

\* The members of S listed in the order given by the sequence order.
RECURSIVE SortedBy(_, _)
SortedBy(order, S) ==
    IF order = <<>> THEN <<>>
    ELSE (IF Head(order) \in S THEN <<Head(order)>> ELSE <<>>)
         \o SortedBy(Tail(order), S)

\* Series.unique(): the distinct values in order of first appearance.
RECURSIVE Unique(_)
Unique(s) ==
    IF s = <<>> THEN <<>>
    ELSE LET r == Unique(SubSeq(s, 1, Len(s) - 1))
             x == s[Len(s)]
         IN IF x \in Range(r) THEN r ELSE Append(r, x)

NikCol(d) == [i \in 1..Len(d) |-> d[i].Nik]
SourceCol(d) == [i \in 1..Len(d) |-> d[i].SourceResult]

RowsOfNik(d, nik) == LET T(r) == r.Nik = nik IN SelectSeq(d, T)
RowsOfSource(d, src) == LET T(r) == r.SourceResult = src IN SelectSeq(d, T)

\* A quotient taken without looking at its denominator.
RateUnguarded(a, b) == [num |-> a, den |-> b]

\* a/b if b else 0, kept exact.
Rate(a, b) == IF b > 0 THEN [num |-> a, den |-> b] ELSE [num |-> 0, den |-> 1]

-----------------------------------------------------------------------------
(* Loading and filtering: lines 23-64 *)

\* The row at position i of the loaded frame for an input choice
\* c = <<nik, time, source, app, status of the first field, status of the
\* other fields>>; spread separates the timestamps of successive rows.
MkRow(i, c, spread) ==
    [Id |-> i, Nik |-> c[1],
     CreatedDate |-> IF c[2] = NaT THEN NaT ELSE c[2] + spread * (i - 1),
     SourceResult |-> c[3], SourceApps |-> c[4],
     st |-> [f \in StatusFields |->
               IF f = status_cols[1] THEN c[5] ELSE c[6]]]

MkDf(cs, spread) == [i \in 1..Len(cs) |-> MkRow(i, cs[i], spread)]

ParsedDates(d) == {d[i].CreatedDate : i \in 1..Len(d)} \ {NaT}

MinOf(S) == CHOOSE x \in S : \A y \in S : x <= y
MaxOf(S) == CHOOSE x \in S : \A y \in S : x >= y

\* The sidebar defaults: every source of the frame, date_min to date_max.
DefaultSources(d) == Range(SourceCol(d))
DefaultDates(d) == <<DateOf(MinOf(ParsedDates(d))), DateOf(MaxOf(ParsedDates(d)))>>

\* A date test that lets a row without a date through.
InDateRangeOrNaT(t, range) ==
    \/ t = NaT
    \/ range[1] <= DateOf(t) /\ DateOf(t) <= range[2]

\* NaT.dt.date is NaT and between() is False for it.
InDateRange(t, range) ==
    /\ t /= NaT
    /\ range[1] <= DateOf(t)
    /\ DateOf(t) <= range[2]

PassesFilter(r, srcs, range) ==
    /\ r.SourceResult \in srcs
    /\ InDateRange(r.CreatedDate, range)

FilterFrame(d, srcs, range) ==
    LET T(r) == PassesFilter(r, srcs, range) IN SelectSeq(d, T)

Blank ==
    /\ pc = "filter"
    /\ raised = ""
    /\ df_f = <<>>
    /\ classification = <<>>
    /\ nik_counts = <<>>
    /\ kpi = <<>>
    /\ source_perf = <<>>
    /\ field_df = <<>>
    /\ hourly = <<>>
    /\ peak_hour = <<>>
    /\ same_app_suspicious = <<>>
    /\ df_nik_check = <<>>
    /\ degradation_results = <<>>
    /\ df_f_sorted = <<>>
    /\ rapid_fire = <<>>
    /\ rapid_summary = <<>>
    /\ cross_inconsistency = <<>>
    /\ insights = <<>>

DoFilter ==
    /\ pc = "filter"
    /\ df_f' = FilterFrame(df, source_filter, date_range)
    /\ pc' = "classify"
    /\ UNCHANGED <<df, source_filter, date_range, raised, classification,
                   nik_counts, kpi, source_perf, field_df, hourly, peak_hour,
                   same_app_suspicious, df_nik_check, degradation_results,
                   df_f_sorted, rapid_fire, rapid_summary, cross_inconsistency, insights,
                   runs, prev_degradation>>

-----------------------------------------------------------------------------
(* KPI per NIK and analytical metrics: lines 71-114 *)

NiksOf(d) == Range(NikCol(d))

\* df_f.groupby("Nik").size()
NikCounts(d) == [n \in NiksOf(d) |-> Len(RowsOfNik(d, n))]

\* (frame[status_cols] == "Sesuai").sum().sum()
SesuaiCells(d) ==
    Cardinality({<<i, f>> \in (1..Len(d)) \X StatusFields : d[i].st[f] = "Sesuai"})

Kpi(d) ==
    LET counts == NikCounts(d)
        total_nik == Cardinality(DOMAIN counts)
        nik_hit_1 == Cardinality({n \in DOMAIN counts : counts[n] = 1})
        nik_hit_gt1 == Cardinality({n \in DOMAIN counts : counts[n] > 1})
        total_requests == Len(d)
        duplicate_requests == total_requests - total_nik
        high_risk_nik == Cardinality({n \in DOMAIN counts : counts[n] > HighRiskHits})
        total_fields == Len(d) * Len(status_cols)
    IN [total_nik |-> total_nik,
        nik_hit_1 |-> nik_hit_1,
        nik_hit_gt1 |-> nik_hit_gt1,
        pct_hit_1 |-> Rate(nik_hit_1, total_nik),
        pct_hit_gt1 |-> Rate(nik_hit_gt1, total_nik),
        total_requests |-> total_requests,
        duplicate_requests |-> duplicate_requests,
        duplicate_rate |-> Rate(duplicate_requests, total_requests),
        high_risk_nik |-> high_risk_nik,
        risk_rate |-> Rate(high_risk_nik, total_nik),
        quality_score |-> Rate(SesuaiCells(d), total_fields)]

DoKpi ==
    /\ pc = "kpi"
    /\ nik_counts' = NikCounts(df_f)
    /\ kpi' = Kpi(df_f)
    /\ pc' = "source_perf"
    /\ UNCHANGED <<df, source_filter, date_range, raised, df_f, classification,
                   source_perf, field_df, hourly, peak_hour,
                   same_app_suspicious, df_nik_check, degradation_results,
                   df_f_sorted, rapid_fire, rapid_summary, cross_inconsistency, insights,
                   runs, prev_degradation>>

-----------------------------------------------------------------------------
(* Source performance: lines 200-209 *)

\* The distinct NIKs of the whole frame, whatever the source.
UniqueNikOverall(d, src) == Cardinality(NiksOf(d))

\* groupby("SourceResult")["Nik"].nunique() of one group
UniqueNik(d, src) == Cardinality(NiksOf(RowsOfSource(d, src)))

\* groupby("SourceResult").size() of one group
TotalRequests(d, src) == Len(RowsOfSource(d, src))

\* One row of source_perf.  Cost_Efficiency = Unique_NIK / Total_Requests and
\* Duplicate_Rate = 1 - Cost_Efficiency, both over the denominator Total_Requests.
SourcePerfRow(d, src) ==
    LET total == TotalRequests(d, src)
        uniq == UniqueNik(d, src)
        grp == RowsOfSource(d, src)
    IN [SourceResult |-> src,
        Total_Requests |-> total,
        Unique_NIK |-> uniq,
        Quality_Score |-> [num |-> SesuaiCells(grp),
                           den |-> Len(grp) * Len(status_cols)],
        Cost_Efficiency |-> [num |-> uniq, den |-> total],
        Duplicate_Rate |-> [num |-> total - uniq, den |-> total]]

\* The merged frame, one row per group key, keys sorted.
SourcePerf(d) ==
    LET keys == SortedBy(SourceOrder, Range(SourceCol(d)))
    IN [k \in 1..Len(keys) |-> SourcePerfRow(d, keys[k])]

\* With no group, groupby(...).apply returns an empty DataFrame in the pandas
\* versions whose _wrap_applied_output builds one, and reset_index(name=...)
\* then raises TypeError; otherwise the frame is empty and the run goes on.
DoSourcePerf ==
    /\ pc = "source_perf"
    /\ source_perf' = SourcePerf(df_f)
    /\ IF df_f = <<>>
       THEN \E outcome \in {"TypeError", ""} :
               /\ raised' = outcome
               /\ pc' = IF outcome = "" THEN "field_acc" ELSE "raised"
       ELSE /\ raised' = raised
            /\ pc' = "field_acc"
    /\ UNCHANGED <<df, source_filter, date_range, df_f, classification,
                   nik_counts, kpi, field_df, hourly, peak_hour,
                   same_app_suspicious, df_nik_check, degradation_results,
                   df_f_sorted, rapid_fire, rapid_summary, cross_inconsistency, insights,
                   runs, prev_degradation>>

-----------------------------------------------------------------------------
(* Field accuracy ranking: lines 277-280 *)

\* (df_f[col] == "Sesuai").mean() * 100, as num/den percent; den = 0 is NaN.
FieldAccuracy(d, f) ==
    [num |-> 100 * Cardinality({i \in 1..Len(d) : d[i].st[f] = "Sesuai"}),
     den |-> Len(d)]

\* a < b on accuracies; NaN compares False and sorts last.
AccLess(a, b) ==
    IF a.den = 0 THEN FALSE
    ELSE IF b.den = 0 THEN TRUE
    ELSE a.num * b.den < b.num * a.den

\* sort_values("Accuracy"): ascending; fields of equal accuracy are kept here
\* in status_cols order.
RECURSIVE InsertByAccuracy(_, _)
InsertByAccuracy(sorted, row) ==
    IF sorted = <<>> THEN <<row>>
    ELSE IF AccLess(row.Accuracy, Head(sorted).Accuracy)
         THEN <<row>> \o sorted
         ELSE <<Head(sorted)>> \o InsertByAccuracy(Tail(sorted), row)

RECURSIVE FieldDfUpTo(_, _)
FieldDfUpTo(d, k) ==
    IF k = 0 THEN <<>>
    ELSE InsertByAccuracy(FieldDfUpTo(d, k - 1),
                          [Field |-> status_cols[k],
                           Accuracy |-> FieldAccuracy(d, status_cols[k])])

FieldDf(d) == FieldDfUpTo(d, Len(status_cols))

DoFieldAccuracy ==
    /\ pc = "field_acc"
    /\ field_df' = FieldDf(df_f)
    /\ pc' = "hourly"
    /\ UNCHANGED <<df, source_filter, date_range, raised, df_f, classification,
                   nik_counts, kpi, source_perf, hourly, peak_hour,
                   same_app_suspicious, df_nik_check, degradation_results,
                   df_f_sorted, rapid_fire, rapid_summary, cross_inconsistency, insights,
                   runs, prev_degradation>>

-----------------------------------------------------------------------------
(* Peak time, hourly: lines 411-436 *)

HourCol(d) == [i \in 1..Len(d) |-> HourOf(d[i].CreatedDate)]

\* The ascending sequence of the members of a finite set of integers.
RECURSIVE Ascending(_)
Ascending(S) ==
    IF S = {} THEN <<>> ELSE <<MinOf(S)>> \o Ascending(S \ {MinOf(S)})

\* All 24 hours of day as keys, whether or not a row falls in them.
HourKeysAllDay(d) == Ascending(0..23)

\* The group keys of groupby("Hour"): the hours that have a row.
HourKeys(d) == Ascending(Range(HourCol(d)))

\* df_f.groupby("Hour").size().reset_index(name="Total_Request")
Hourly(d) ==
    LET keys == HourKeys(d)
    IN [k \in 1..Len(keys) |->
          [Hour |-> keys[k],
           Total_Request |-> Cardinality({i \in 1..Len(d) : HourOf(d[i].CreatedDate) = keys[k]})]]

DoHourly ==
    /\ pc = "hourly"
    /\ hourly' = Hourly(df_f)
    /\ pc' = "peak_hour"
    /\ UNCHANGED <<df, source_filter, date_range, raised, df_f, classification,
                   nik_counts, kpi, source_perf, field_df, peak_hour,
                   same_app_suspicious, df_nik_check, degradation_results,
                   df_f_sorted, rapid_fire, rapid_summary, cross_inconsistency, insights,
                   runs, prev_degradation>>

\* The first position holding the minimum.
IdxMin(counts) ==
    CHOOSE k \in 1..Len(counts) :
        /\ \A j \in 1..Len(counts) : counts[k] <= counts[j]
        /\ \A j \in 1..(k - 1) : counts[k] < counts[j]

\* Series.idxmax(): the first position holding the maximum.
IdxMax(counts) ==
    CHOOSE k \in 1..Len(counts) :
        /\ \A j \in 1..Len(counts) : counts[j] <= counts[k]
        /\ \A j \in 1..(k - 1) : counts[j] < counts[k]

TotalRequestCol(h) == [k \in 1..Len(h) |-> h[k].Total_Request]

\* idxmax of an empty Series raises ValueError: the script stops at line 423.
DoPeakHour ==
    /\ pc = "peak_hour"
    /\ IF hourly = <<>>
       THEN /\ raised' = "ValueError"
            /\ pc' = "raised"
            /\ peak_hour' = peak_hour
       ELSE /\ peak_hour' = hourly[IdxMax(TotalRequestCol(hourly))]
            /\ pc' = "anomaly"
            /\ raised' = raised
    /\ UNCHANGED <<df, source_filter, date_range, df_f, classification,
                   nik_counts, kpi, source_perf, field_df, hourly,
                   same_app_suspicious, df_nik_check, degradation_results,
                   df_f_sorted, rapid_fire, rapid_summary, cross_inconsistency, insights,
                   runs, prev_degradation>>

\* Series.std() divides the sum of squared deviations by n - ddof, ddof = 1.
VarianceDivisor(n) == n - 1

\* Sum over the buckets of (n * count - sum)^2, that is n^2 times the sum of
\* squared deviations from the mean.
ScaledSquares(counts) ==
    LET n == Len(counts)
        total == SumSeq(counts)
    IN SumSeq([k \in 1..n |-> (n * counts[k] - total) * (n * counts[k] - total)])

\* count > mean + 2*std, in exact arithmetic: with n buckets of sum S and
\* SS = ScaledSquares, std = sqrt(SS / (n^2 * divisor)), so the test is
\* n*count - S > 2*sqrt(SS / divisor).  A divisor of 0 makes std NaN and the
\* comparison False.
\* A test that flags a count equal to the threshold.
ReachesThreshold(count, counts) ==
    LET n == Len(counts)
        total == SumSeq(counts)
        dev == n * count - total
        divisor == VarianceDivisor(n)
    IN /\ divisor > 0
       /\ dev >= 0
       /\ divisor * dev * dev >= AnomalySigmas * AnomalySigmas * ScaledSquares(counts)

ExceedsThreshold(count, counts) ==
    LET n == Len(counts)
        total == SumSeq(counts)
        dev == n * count - total
        divisor == VarianceDivisor(n)
    IN /\ divisor > 0
       /\ dev > 0
       /\ divisor * dev * dev > AnomalySigmas * AnomalySigmas * ScaledSquares(counts)

DoAnomaly ==
    /\ pc = "anomaly"
    /\ hourly' = [k \in 1..Len(hourly) |->
                    [Hour |-> hourly[k].Hour,
                     Total_Request |-> hourly[k].Total_Request,
                     Anomaly |-> ExceedsThreshold(hourly[k].Total_Request,
                                                  TotalRequestCol(hourly))]]
    /\ pc' = "same_app"
    /\ UNCHANGED <<df, source_filter, date_range, raised, df_f, classification,
                   nik_counts, kpi, source_perf, field_df, peak_hour,
                   same_app_suspicious, df_nik_check, degradation_results,
                   df_f_sorted, rapid_fire, rapid_summary, cross_inconsistency, insights,
                   runs, prev_degradation>>

-----------------------------------------------------------------------------
(* Same SourceApps pattern: lines 482-483 *)

\* The rows of same_app with Hit_Count > 3, as a set (the descending order of
\* line 483 is not kept).
SameAppSuspicious(d) ==
    LET keys == {<<d[i].SourceApps, d[i].Nik>> : i \in 1..Len(d)}
        hits(k) == Cardinality({i \in 1..Len(d) : <<d[i].SourceApps, d[i].Nik>> = k})
    IN {[SourceApps |-> k[1], Nik |-> k[2], Hit_Count |-> hits(k)] :
          k \in {x \in keys : hits(x) > SameAppHits}}

DoSameApp ==
    /\ pc = "same_app"
    /\ same_app_suspicious' = SameAppSuspicious(df_f)
    /\ pc' = "degradation"
    /\ UNCHANGED <<df, source_filter, date_range, raised, df_f, classification,
                   nik_counts, kpi, source_perf, field_df, hourly, peak_hour,
                   df_nik_check, degradation_results,
                   df_f_sorted, rapid_fire, rapid_summary, cross_inconsistency, insights,
                   runs, prev_degradation>>

-----------------------------------------------------------------------------
(* Status degradation: lines 527-555 *)

\* sort_values("CreatedDate") uses the default kind "quicksort", which does not
\* promise the order of rows with equal CreatedDate: every ascending
\* arrangement of the rows at the positions I is a possible outcome.
RECURSIVE SortedOrders(_, _)
SortedOrders(d, I) ==
    IF I = {} THEN {<<>>}
    ELSE LET m == MinOf({d[i].CreatedDate : i \in I})
             M == {i \in I : d[i].CreatedDate = m}
         IN UNION {{<<d[i]>> \o t : t \in SortedOrders(d, I \ {i})} : i \in M}

SortValuesCreatedDate(d) == SortedOrders(d, 1..Len(d))

\* A test that takes any step to "Tidak Sesuai" for a degradation.
IsDegradationAnyDrop(statuses, i) ==
    statuses[i] /= "Tidak Sesuai" /\ statuses[i + 1] = "Tidak Sesuai"

\* The test of line 541 on the adjacent pair (i, i+1).
IsDegradation(statuses, i) ==
    statuses[i] = "Sesuai" /\ statuses[i + 1] = "Tidak Sesuai"

DegradationRecord(nik, col, rows, i) ==
    [NIK |-> nik, Field |-> col,
     Status_Awal |-> "Sesuai", Status_Akhir |-> "Tidak Sesuai",
     Tanggal_Cek_Pertama |-> rows[i].CreatedDate,
     Tanggal_Degradasi |-> rows[i + 1].CreatedDate,
     Selisih_Waktu_Jam |-> [num |-> rows[i + 1].CreatedDate - rows[i].CreatedDate,
                            den |-> HourSeconds],
     Sumber_Pertama |-> rows[i].SourceResult,
     Sumber_Degradasi |-> rows[i + 1].SourceResult,
     App_Pertama |-> rows[i].SourceApps,
     App_Degradasi |-> rows[i + 1].SourceApps,
     Total_Hit_NIK |-> Len(rows)]

\* for i in range(len(statuses)-1), from position i on
RECURSIVE PairScan(_, _, _, _)
PairScan(nik, col, rows, i) ==
    IF i > Len(rows) - 1 THEN <<>>
    ELSE (IF IsDegradation([k \in 1..Len(rows) |-> rows[k].st[col]], i)
          THEN <<DegradationRecord(nik, col, rows, i)>> ELSE <<>>)
         \o PairScan(nik, col, rows, i + 1)

\* for col in status_cols, from column k on
RECURSIVE ColScan(_, _, _)
ColScan(nik, rows, k) ==
    IF k > Len(status_cols) THEN <<>>
    ELSE PairScan(nik, status_cols[k], rows, 1) \o ColScan(nik, rows, k + 1)

\* for nik in df_f["Nik"].unique(), from the j-th on; checked[nik] is the
\* sorted frame df_nik_check of that NIK.
RECURSIVE NikScan(_, _, _)
NikScan(niks, checked, j) ==
    IF j > Len(niks) THEN <<>>
    ELSE (IF Len(checked[niks[j]]) > 1 THEN ColScan(niks[j], checked[niks[j]], 1)
          ELSE <<>>)
         \o NikScan(niks, checked, j + 1)

DoDegradation ==
    /\ pc = "degradation"
    /\ \E srt \in SortValuesCreatedDate(df_f) :
          LET checked == [n \in NiksOf(df_f) |-> RowsOfNik(srt, n)]
          IN /\ df_nik_check' = checked
             /\ degradation_results' = NikScan(Unique(NikCol(df_f)), checked, 1)
    /\ pc' = "rapid_fire"
    /\ UNCHANGED <<df, source_filter, date_range, raised, df_f, classification,
                   nik_counts, kpi, source_perf, field_df, hourly, peak_hour,
                   same_app_suspicious,
                   df_f_sorted, rapid_fire, rapid_summary, cross_inconsistency, insights,
                   runs, prev_degradation>>

-----------------------------------------------------------------------------
(* Rapid fire pattern: lines 652-667 *)

\* Row order of sort_values(["Nik", "CreatedDate"]): by Nik, then CreatedDate;
\* the multi-key sort is stable, so equal keys keep their df_f order.
KeyLess(a, b) ==
    \/ a.Nik < b.Nik
    \/ a.Nik = b.Nik /\ a.CreatedDate < b.CreatedDate

RECURSIVE InsertByKey(_, _)
InsertByKey(sorted, row) ==
    IF sorted = <<>> THEN <<row>>
    ELSE IF KeyLess(row, Head(sorted)) THEN <<row>> \o sorted
         ELSE <<Head(sorted)>> \o InsertByKey(Tail(sorted), row)

RECURSIVE SortByNikDate(_)
SortByNikDate(d) ==
    IF d = <<>> THEN <<>>
    ELSE InsertByKey(SortByNikDate(SubSeq(d, 1, Len(d) - 1)), d[Len(d)])

\* The value of Time_Diff for the first row of a NIK (NaN).
NaN == 0 - 1

\* A difference taken along the whole sorted frame, across NIKs.
TimeDiffUngrouped(sorted, k) ==
    IF k > 1
    THEN sorted[k].CreatedDate - sorted[k - 1].CreatedDate
    ELSE NaN

\* groupby("Nik")["CreatedDate"].diff().dt.total_seconds() at position k
TimeDiff(sorted, k) ==
    IF k > 1 /\ sorted[k - 1].Nik = sorted[k].Nik
    THEN sorted[k].CreatedDate - sorted[k - 1].CreatedDate
    ELSE NaN

\* A threshold test that includes the bound.
IsRapidInclusive(diff) == diff /= NaN /\ diff <= RapidFireSeconds

\* Time_Diff < 5; NaN compares False.
IsRapid(diff) == diff /= NaN /\ diff < RapidFireSeconds

WithTimeDiff(sorted) ==
    [k \in 1..Len(sorted) |-> [row |-> sorted[k], Time_Diff |-> TimeDiff(sorted, k)]]

RapidFire(sorted) == LET T(e) == IsRapid(e.Time_Diff) IN SelectSeq(sorted, T)

\* rapid_fire.groupby("Nik").agg(Id count, Time_Diff mean), built when
\* rapid_fire is not empty.
RapidSummary(rapid) ==
    [n \in {rapid[k].row.Nik : k \in 1..Len(rapid)} |->
       LET T(e) == e.row.Nik = n
           grp == SelectSeq(rapid, T)
       IN [Rapid_Hits |-> Len(grp),
           Avg_Interval_Sec |-> [num |-> SumSeq([k \in 1..Len(grp) |-> grp[k].Time_Diff]),
                                 den |-> Len(grp)]]]

DoRapidFire ==
    /\ pc = "rapid_fire"
    /\ df_f_sorted' = WithTimeDiff(SortByNikDate(df_f))
    /\ rapid_fire' = RapidFire(df_f_sorted')
    /\ rapid_summary' = IF Len(rapid_fire') > 0 THEN RapidSummary(rapid_fire')
                        ELSE rapid_summary
    /\ pc' = "cross"
    /\ UNCHANGED <<df, source_filter, date_range, raised, df_f, classification,
                   nik_counts, kpi, source_perf, field_df, hourly, peak_hour,
                   same_app_suspicious, df_nik_check, degradation_results,
                   cross_inconsistency, insights,
                   runs, prev_degradation>>

-----------------------------------------------------------------------------
(* Cross-source inconsistency: lines 695-711 *)

Occurrences(xs, v) == Cardinality({i \in 1..Len(xs) : xs[i] = v})

\* The most frequent value seen first.
ModeFirstSeen(xs) ==
    LET most == {v \in Range(xs) : \A w \in Range(xs) : Occurrences(xs, w) <= Occurrences(xs, v)}
    IN xs[MinOf({i \in 1..Len(xs) : xs[i] \in most})]

\* x.mode()[0]: Series.mode() returns the most frequent values sorted, so its
\* first entry is the smallest of them.  (A group is never empty, so the
\* x.iloc[0] branch of line 702 is never taken.)
ModeFirst(xs) ==
    LET most == {v \in Range(xs) : \A w \in Range(xs) : Occurrences(xs, w) <= Occurrences(xs, v)}
    IN Head(SortedBy(StatusOrder, most))

\* One entry per row, without the grouping by source.
StatusesByRow(rows, col) ==
    [k \in 1..Len(rows) |-> [source |-> rows[k].SourceResult, value |-> rows[k].st[col]]]

\* df_nik_cross.groupby("SourceResult")[col].apply(...): keys sorted.
StatusesBySource(rows, col) ==
    LET keys == SortedBy(SourceOrder, Range(SourceCol(rows)))
    IN [k \in 1..Len(keys) |->
          LET grp == RowsOfSource(rows, keys[k])
          IN [source |-> keys[k],
              value |-> ModeFirst([i \in 1..Len(grp) |-> grp[i].st[col]])]]

\* statuses_by_source.nunique() > 1
Disagrees(by_source) == Cardinality({by_source[k].value : k \in 1..Len(by_source)}) > 1

\* df_nik_cross["SourceResult"].nunique() > 1
HasSeveralSources(rows) == Cardinality(Range(SourceCol(rows))) > 1

RECURSIVE CrossColScan(_, _, _)
CrossColScan(nik, rows, k) ==
    IF k > Len(status_cols) THEN <<>>
    ELSE LET by_source == StatusesBySource(rows, status_cols[k])
         IN (IF Disagrees(by_source)
             THEN <<[NIK |-> nik, Field |-> status_cols[k],
                     Sources |-> [j \in 1..Len(by_source) |-> by_source[j].source],
                     Values |-> [j \in 1..Len(by_source) |-> by_source[j].value],
                     Hit_Count |-> Len(rows)]>>
             ELSE <<>>)
            \o CrossColScan(nik, rows, k + 1)

RECURSIVE CrossNikScan(_, _, _)
CrossNikScan(d, niks, j) ==
    IF j > Len(niks) THEN <<>>
    ELSE (IF HasSeveralSources(RowsOfNik(d, niks[j]))
          THEN CrossColScan(niks[j], RowsOfNik(d, niks[j]), 1) ELSE <<>>)
         \o CrossNikScan(d, niks, j + 1)

DoCross ==
    /\ pc = "cross"
    /\ cross_inconsistency' = CrossNikScan(df_f, Unique(NikCol(df_f)), 1)
    /\ pc' = "insights"
    /\ UNCHANGED <<df, source_filter, date_range, raised, df_f, classification,
                   nik_counts, kpi, source_perf, field_df, hourly, peak_hour,
                   same_app_suspicious, df_nik_check, degradation_results,
                   df_f_sorted, rapid_fire, rapid_summary, insights,
                   runs, prev_degradation>>

-----------------------------------------------------------------------------
(* Actionable insights: lines 757-797 *)

FracLess(a, b) == a.num * b.den < b.num * a.den

CostEfficiencyCol(perf) == [k \in 1..Len(perf) |-> perf[k].Cost_Efficiency]

\* Series.idxmin() / idxmax() of a column of fractions: the first position
\* holding the minimum / maximum.
IdxMinFrac(col) ==
    CHOOSE k \in 1..Len(col) :
        /\ \A j \in 1..Len(col) : ~FracLess(col[j], col[k])
        /\ \A j \in 1..(k - 1) : FracLess(col[k], col[j])

IdxMaxFrac(col) ==
    CHOOSE k \in 1..Len(col) :
        /\ \A j \in 1..Len(col) : ~FracLess(col[k], col[j])
        /\ \A j \in 1..(k - 1) : FracLess(col[j], col[k])

\* field_df.iloc[0]: sort_values("Accuracy") (quicksort) leaves the order of
\* fields of equal accuracy open, so any field as accurate as the first row of
\* field_df can be its first row.
FirstRowChoices(fdf) ==
    {fdf[k] : k \in {j \in 1..Len(fdf) :
                        /\ ~AccLess(fdf[1].Accuracy, fdf[j].Accuracy)
                        /\ ~AccLess(fdf[j].Accuracy, fdf[1].Accuracy)}}

DoInsights ==
    /\ pc = "insights"
    /\ \E worst_field \in FirstRowChoices(field_df) :
          LET worst_source == source_perf[IdxMinFrac(CostEfficiencyCol(source_perf))]
              best_source == source_perf[IdxMaxFrac(CostEfficiencyCol(source_perf))]
          IN insights' =
               [high_risk |-> kpi.high_risk_nik > 0,
                same_app |-> Cardinality(same_app_suspicious) > 0,
                degradation |-> Len(degradation_results) > 0,
                rapid_fire |-> Len(rapid_fire) > 0,
                worst_source |-> worst_source,
                low_efficiency |-> 100 * worst_source.Cost_Efficiency.num
                                     < LowEfficiencyPct * worst_source.Cost_Efficiency.den,
                worst_field |-> worst_field,
                low_accuracy |-> /\ worst_field.Accuracy.den > 0
                                 /\ worst_field.Accuracy.num
                                      < LowAccuracyPct * worst_field.Accuracy.den,
                peak_hour |-> peak_hour,
                best_source |-> best_source,
                high_duplicate |-> 100 * kpi.duplicate_rate.num
                                     > HighDuplicatePct * kpi.duplicate_rate.den]
    /\ pc' = "done"
    /\ UNCHANGED <<df, source_filter, date_range, raised, df_f, classification,
                   nik_counts, kpi, source_perf, field_df, hourly, peak_hour,
                   same_app_suspicious, df_nik_check, degradation_results,
                   df_f_sorted, rapid_fire, rapid_summary, cross_inconsistency,
                   runs, prev_degradation>>

-----------------------------------------------------------------------------
(* Sequence classifier: section 4.1 of the specification (no code under    *)
(* src/ implements it)                                                     *)

Categories == {"DirectCache", "CacheViaDukcapilThenBCA", "CacheViaBCA",
               "CacheViaDukcapil", "Unclassified"}

\* The patterns in their precedence order.
PatternOrder == <<"DirectCache", "CacheViaDukcapilThenBCA", "CacheViaBCA",
                  "CacheViaDukcapil">>

\* Order by created_at ascending, ties broken by id ascending.
EventLess(a, b) ==
    \/ a.CreatedDate < b.CreatedDate
    \/ a.CreatedDate = b.CreatedDate /\ a.Id < b.Id

RECURSIVE InsertByEvent(_, _)
InsertByEvent(sorted, row) ==
    IF sorted = <<>> THEN <<row>>
    ELSE IF EventLess(row, Head(sorted)) THEN <<row>> \o sorted
         ELSE <<Head(sorted)>> \o InsertByEvent(Tail(sorted), row)

RECURSIVE SortByEvent(_)
SortByEvent(d) ==
    IF d = <<>> THEN <<>>
    ELSE InsertByEvent(SortByEvent(Tail(d)), Head(d))

\* The time-ordered source_result sequence of one NIK.
SourceSequence(d, nik) == SourceCol(SortByEvent(RowsOfNik(d, nik)))

Has(sq, x) == x \in Range(sq)

FirstAt(sq, x) == MinOf({i \in 1..Len(sq) : sq[i] = x})

CacheEligible(sq) == Has(sq, "DB_CACHE")

IsDirectCache(sq) == sq = <<"DB_CACHE">>

IsCacheViaDukcapilThenBCA(sq) ==
    /\ Has(sq, "DUKCAPIL") /\ Has(sq, "BCA") /\ Has(sq, "DB_CACHE")
    /\ FirstAt(sq, "DUKCAPIL") < FirstAt(sq, "BCA")
    /\ FirstAt(sq, "BCA") < FirstAt(sq, "DB_CACHE")

\* The BCA pattern without its exclusion of DUKCAPIL.
IsCacheViaBCAOpen(sq) ==
    /\ Has(sq, "BCA") /\ Has(sq, "DB_CACHE")
    /\ FirstAt(sq, "BCA") < FirstAt(sq, "DB_CACHE")

IsCacheViaBCA(sq) ==
    /\ Has(sq, "BCA") /\ Has(sq, "DB_CACHE") /\ ~Has(sq, "DUKCAPIL")
    /\ FirstAt(sq, "BCA") < FirstAt(sq, "DB_CACHE")

IsCacheViaDukcapil(sq) ==
    /\ Has(sq, "DUKCAPIL") /\ Has(sq, "DB_CACHE") /\ ~Has(sq, "BCA")
    /\ FirstAt(sq, "DUKCAPIL") < FirstAt(sq, "DB_CACHE")

Matches(cat, sq) ==
    CASE cat = "DirectCache" -> IsDirectCache(sq)
      [] cat = "CacheViaDukcapilThenBCA" -> IsCacheViaDukcapilThenBCA(sq)
      [] cat = "CacheViaBCA" -> IsCacheViaBCA(sq)
      [] cat = "CacheViaDukcapil" -> IsCacheViaDukcapil(sq)
      [] OTHER -> FALSE

\* First match in precedence order wins; otherwise Unclassified.
Classify(sq) ==
    LET hits == {k \in 1..Len(PatternOrder) : Matches(PatternOrder[k], sq)}
    IN IF hits = {} THEN "Unclassified" ELSE PatternOrder[MinOf(hits)]

EligibleNiks(d) == {n \in NiksOf(d) : CacheEligible(SourceSequence(d, n))}

\* The members of a category: the eligible NIKs whose sequence matches its
\* pattern; Unclassified holds those that match none.
CategoryMembers(d, cat) ==
    IF cat = "Unclassified"
    THEN {n \in EligibleNiks(d) :
            \A k \in 1..Len(PatternOrder) : ~Matches(PatternOrder[k], SourceSequence(d, n))}
    ELSE {n \in EligibleNiks(d) : Matches(cat, SourceSequence(d, n))}

Classification(d) ==
    [result |-> [n \in EligibleNiks(d) |-> Classify(SourceSequence(d, n))],
     members |-> [cat \in Categories |-> CategoryMembers(d, cat)],
     rows |-> [cat \in Categories |->
                 Cardinality({i \in 1..Len(d) : d[i].Nik \in CategoryMembers(d, cat)})]]

DoClassify ==
    /\ pc = "classify"
    /\ classification' = Classification(df_f)
    /\ pc' = "kpi"
    /\ UNCHANGED <<df, source_filter, date_range, raised, df_f,
                   nik_counts, kpi, source_perf, field_df, hourly, peak_hour,
                   same_app_suspicious, df_nik_check, degradation_results,
                   df_f_sorted, rapid_fire, rapid_summary, cross_inconsistency, insights,
                   runs, prev_degradation>>

-----------------------------------------------------------------------------
(* Inputs and specifications *)

Status == Range(StatusOrder)

MaxRowsDegradation == 3
MaxRowsPermuted == 2
MaxRuns == 1
MaxRowsCross == 3
MaxRowsFilter == 2
MaxRowsRapid == 3
MaxRowsClassify == 3
NumHours == 6
MaxRowsInsight == 3
NumNiksKpi == 3

DefaultFilter ==
    /\ source_filter = DefaultSources(df)
    /\ date_range = DefaultDates(df)

FirstRun ==
    /\ runs = 0
    /\ prev_degradation = {}

\* One or two NIKs checked once or several times at two instants (rows of
\* one NIK can share a CreatedDate), the first field taking every status.
InitDegradation ==
    /\ \E n \in 1..MaxRowsDegradation :
         \E cs \in [1..n -> {1, 2} \X {0, 10} \X {"DUKCAPIL"} \X {"app1"} \X Status \X {"Sesuai"}] :
            df = MkDf(cs, 0)
    /\ DefaultFilter /\ Blank /\ FirstRun

InitPermuted ==
    /\ \E n \in 1..MaxRowsPermuted :
         \E cs \in [1..n -> {1, 2} \X {0, 10} \X {"BCA", "DUKCAPIL"} \X {"app1"}
                             \X {"Sesuai", "Tidak Sesuai"} \X {"Sesuai"}] :
            df = MkDf(cs, 0)
    /\ DefaultFilter /\ Blank /\ FirstRun

\* Rows ten seconds apart, of two NIKs and two sources.
InitCross ==
    /\ \E n \in 1..MaxRowsCross :
         \E cs \in [1..n -> {1, 2} \X {0} \X {"BCA", "DUKCAPIL"} \X {"app1"} \X Status \X {"Sesuai"}] :
            df = MkDf(cs, 10)
    /\ DefaultFilter /\ Blank /\ FirstRun

\* Rows on two days or with an unparseable CreatedDate (at least one parses:
\* the sidebar needs date_min), under the default filter, a source filter
\* with nothing or only BCA selected, or a date range of the first day or of
\* a day after the last.
InitFilter ==
    /\ \E n \in 1..MaxRowsFilter :
         \E cs \in [1..n -> {1, 2} \X {NaT, 0, DaySeconds} \X {"BCA", "DUKCAPIL"} \X {"app1"}
                             \X {"Tidak Sesuai"} \X {"Sesuai"}] :
            df = MkDf(cs, 0)
    /\ ParsedDates(df) /= {}
    /\ source_filter \in {DefaultSources(df), {}, {"BCA"}}
    /\ date_range \in {DefaultDates(df),
                       <<DefaultDates(df)[1], DefaultDates(df)[1]>>,
                       <<DefaultDates(df)[2] + 1, DefaultDates(df)[2] + 1>>}
    /\ Blank /\ FirstRun

\* Rows of two NIKs at instants 0, 4, 5, 9 and 10 seconds.
InitRapid ==
    /\ \E n \in 1..MaxRowsRapid :
         \E cs \in [1..n -> {1, 2} \X {0, 4, 5, 9, 10} \X {"DUKCAPIL"} \X {"app1"}
                             \X {"Tidak Sesuai"} \X {"Sesuai"}] :
            df = MkDf(cs, 0)
    /\ DefaultFilter /\ Blank /\ FirstRun

\* Rows ten seconds apart, of two NIKs and the three sources.
InitClassify ==
    /\ \E n \in 1..MaxRowsClassify :
         \E cs \in [1..n -> {1, 2} \X {0} \X {"BCA", "DB_CACHE", "DUKCAPIL"} \X {"app1"}
                             \X {"Sesuai"} \X {"-"}] :
            df = MkDf(cs, 10)
    /\ DefaultFilter /\ Blank /\ FirstRun

\* The rows of a frame holding per[h] events in hour h, ten seconds apart
\* (none, one or two events in each of the first NumHours hours of day).
RECURSIVE HourRows(_, _)
HourRows(per, h) ==
    IF h < 0 THEN <<>>
    ELSE HourRows(per, h - 1)
         \o [k \in 1..per[h] |-> <<1, h * HourSeconds + 10 * k, "DUKCAPIL", "app1", "Tidak Sesuai", "Sesuai">>]

\* Rows ten seconds apart in the first or the second hour of day: NIK 1 at
\* either source or NIK 2 at DUKCAPIL, the first field "Tidak Sesuai" or every
\* other field "-".
InitInsight ==
    /\ \E n \in 1..MaxRowsInsight :
         \E cs \in [1..n -> {<<p[1], t, p[2], "app1", s[1], s[2]>> :
                                 p \in {<<1, "BCA">>, <<1, "DUKCAPIL">>, <<2, "DUKCAPIL">>},
                                 t \in {0, HourSeconds},
                                 s \in {<<"Tidak Sesuai", "Sesuai">>, <<"Sesuai", "-">>}}] :
            df = MkDf(cs, 10)
    /\ DefaultFilter /\ Blank /\ FirstRun

\* The rows of a frame holding per[n] events of NIK n, NIK 1 answered by BCA
\* and the others by DUKCAPIL.
RECURSIVE NikRows(_, _)
NikRows(per, n) ==
    IF n < 1 THEN <<>>
    ELSE NikRows(per, n - 1)
         \o [k \in 1..per[n] |-> <<n, 0, IF n = 1 THEN "BCA" ELSE "DUKCAPIL", "app1",
                                     "Tidak Sesuai", "Sesuai">>]

\* NIKs with no, one, two, five or six events ten seconds apart, under the
\* default filter or a source filter with nothing or only BCA selected.
InitKpi ==
    /\ \E per \in [1..NumNiksKpi -> {0, 1, 2, HighRiskHits, HighRiskHits + 1}] :
         /\ \E n \in DOMAIN per : per[n] > 0
         /\ df = MkDf(NikRows(per, NumNiksKpi), 10)
    /\ source_filter \in {DefaultSources(df), {}, {"BCA"}}
    /\ date_range = DefaultDates(df)
    /\ Blank /\ FirstRun

InitHourly ==
    /\ \E per \in [0..(NumHours - 1) -> {0, 1, 2}] :
         /\ \E h \in DOMAIN per : per[h] > 0
         /\ df = MkDf(HourRows(per, NumHours - 1), 0)
    /\ DefaultFilter /\ Blank /\ FirstRun

\* The script run again (Streamlit reruns it from line 1) on the same rows in
\* another order: two adjacent rows of the frame exchanged.
Rerun ==
    /\ pc = "done"
    /\ runs < MaxRuns
    /\ \E i \in 1..(Len(df) - 1) :
          df' = [df EXCEPT ![i] = df[i + 1], ![i + 1] = df[i]]
    /\ prev_degradation' = Range(degradation_results)
    /\ runs' = runs + 1
    /\ pc' = "filter"
    /\ raised' = ""
    /\ df_f' = <<>>
    /\ classification' = <<>>
    /\ nik_counts' = <<>>
    /\ kpi' = <<>>
    /\ source_perf' = <<>>
    /\ field_df' = <<>>
    /\ hourly' = <<>>
    /\ peak_hour' = <<>>
    /\ same_app_suspicious' = <<>>
    /\ df_nik_check' = <<>>
    /\ degradation_results' = <<>>
    /\ df_f_sorted' = <<>>
    /\ rapid_fire' = <<>>
    /\ rapid_summary' = <<>>
    /\ cross_inconsistency' = <<>>
    /\ insights' = <<>>
    /\ UNCHANGED <<source_filter, date_range>>

Next ==
    \/ DoFilter
    \/ DoClassify
    \/ DoKpi
    \/ DoSourcePerf
    \/ DoFieldAccuracy
    \/ DoHourly
    \/ DoPeakHour
    \/ DoAnomaly
    \/ DoSameApp
    \/ DoDegradation
    \/ DoRapidFire
    \/ DoCross
    \/ DoInsights

NextPermuted == Next \/ Rerun

SpecDegradation == InitDegradation /\ [][Next]_vars
SpecPermuted == InitPermuted /\ [][NextPermuted]_vars
SpecCross == InitCross /\ [][Next]_vars
SpecFilter == InitFilter /\ [][Next]_vars
SpecRapid == InitRapid /\ [][Next]_vars
SpecClassify == InitClassify /\ [][Next]_vars
SpecHourly == InitHourly /\ [][Next]_vars
SpecInsight == InitInsight /\ [][Next]_vars
SpecKpi == InitKpi /\ [][Next]_vars

-----------------------------------------------------------------------------
(* Properties *)

AfterDegradation == pc \in {"rapid_fire", "cross", "insights", "done"}

\* The statuses of one field along a sequence of rows.
StatusList(rows, f) == [k \in 1..Len(rows) |-> rows[k].st[f]]

\* The number of degradation records emitted for a NIK and a field.
RecordsFor(n, f) ==
    Cardinality({k \in 1..Len(degradation_results) :
                    /\ degradation_results[k].NIK = n
                    /\ degradation_results[k].Field = f})

\* The indices i with status[i] = "Sesuai" and status[i+1] = "Tidak Sesuai".
DropIndices(statuses) ==
    {i \in 1..(Len(statuses) - 1) :
        statuses[i] = "Sesuai" /\ statuses[i + 1] = "Tidak Sesuai"}

\* C1: once the degradation scan has run, the list the scan walked for each
\* NIK holds that NIK's filtered rows in ascending CreatedDate; for a NIK with
\* more than one row and each tracked field the number of records emitted is
\* the number of indices i with status[i] = "Sesuai" and status[i+1] =
\* "Tidak Sesuai" ([Sesuai, Tidak Sesuai, Sesuai] gives one, [Sesuai, -,
\* Tidak Sesuai] none); a NIK with exactly one row gives no record.
C1_DegradationCount ==
    AfterDegradation =>
      \A n \in NiksOf(df_f) :
        LET rows == df_nik_check[n]
        IN /\ Len(rows) = Len(RowsOfNik(df_f, n))
           /\ Range(rows) = Range(RowsOfNik(df_f, n))
           /\ \A i \in 1..(Len(rows) - 1) : rows[i].CreatedDate <= rows[i + 1].CreatedDate
           /\ \A f \in StatusFields :
                 /\ Len(rows) > 1 =>
                      RecordsFor(n, f) = Cardinality(DropIndices(StatusList(rows, f)))
                 /\ Len(rows) = 1 => RecordsFor(n, f) = 0
                 /\ StatusList(rows, f) = <<"Sesuai", "Tidak Sesuai", "Sesuai">>
                      => RecordsFor(n, f) = 1
                 /\ StatusList(rows, f) = <<"Sesuai", "-", "Tidak Sesuai">>
                      => RecordsFor(n, f) = 0

\* A NIK walked as [Sesuai, Tidak Sesuai, Sesuai], with its one record.
C1_Witness ==
    /\ AfterDegradation
    /\ \E n \in NiksOf(df_f) :
         /\ StatusList(df_nik_check[n], status_cols[1]) = <<"Sesuai", "Tidak Sesuai", "Sesuai">>
         /\ RecordsFor(n, status_cols[1]) = 1

\* C5: the set of degradation records of a run equals the set of the run
\* before it on the same rows in another order.
C5_RowOrderIndependent ==
    (runs > 0 /\ AfterDegradation) => Range(degradation_results) = prev_degradation

AfterCross == pc \in {"insights", "done"}

SourcesOfNik(n) == {df_f[i].SourceResult : i \in {j \in 1..Len(df_f) : df_f[j].Nik = n}}

\* The statuses of field f in the filtered events of NIK n from source src,
\* in frame order.
StatusesOf(n, src, f) ==
    LET T(r) == r.Nik = n /\ r.SourceResult = src
        rows == SelectSeq(df_f, T)
    IN [k \in 1..Len(rows) |-> rows[k].st[f]]

MostFrequent(xs) ==
    {v \in Range(xs) : \A w \in Range(xs) : Occurrences(xs, w) <= Occurrences(xs, v)}

\* The most frequent status that sorts first.
SmallestMostFrequent(xs) ==
    CHOOSE v \in MostFrequent(xs) :
        \A w \in MostFrequent(xs) : RankIn(StatusOrder, v) <= RankIn(StatusOrder, w)

\* The records of cross_inconsistency for a NIK and a field.
CrossRecords(n, f) ==
    {k \in 1..Len(cross_inconsistency) :
        cross_inconsistency[k].NIK = n /\ cross_inconsistency[k].Field = f}

\* The value a record reports for a source.
ReportedValue(rec, src) ==
    rec.Values[CHOOSE j \in 1..Len(rec.Sources) : rec.Sources[j] = src]

C8_NeedsTwoSources ==
    AfterCross =>
      /\ \A n \in NiksOf(df_f) :
           Cardinality(SourcesOfNik(n)) = 1 =>
             \A f \in StatusFields : CrossRecords(n, f) = {}
      /\ \A k \in 1..Len(cross_inconsistency) :
           LET rec == cross_inconsistency[k]
           IN /\ Len(rec.Sources) >= 2
              /\ Len(rec.Values) = Len(rec.Sources)
              /\ Range(rec.Sources) = SourcesOfNik(rec.NIK)
              /\ Cardinality(Range(rec.Sources)) = Len(rec.Sources)
              /\ Cardinality({SmallestMostFrequent(StatusesOf(rec.NIK, src, rec.Field)) :
                                src \in SourcesOfNik(rec.NIK)}) > 1

\* A NIK queried several times through one source with differing statuses,
\* and not reported.
C8_Witness ==
    /\ AfterCross
    /\ \E n \in NiksOf(df_f) :
         /\ Cardinality(SourcesOfNik(n)) = 1
         /\ \E src \in SourcesOfNik(n) :
              Cardinality(Range(StatusesOf(n, src, status_cols[1]))) > 1
         /\ CrossRecords(n, status_cols[1]) = {}

AfterSourcePerf ==
    pc \notin {"filter", "classify", "kpi", "source_perf", "raised"}

\* C9: source_perf has one row for each SourceResult of the filtered frame;
\* its Cost_Efficiency is the number of distinct NIKs of the source over the
\* number of its rows, is greater than 0 and at most 1, and adds up to 1 with
\* Duplicate_Rate.
C9_CostEfficiencyBound ==
    AfterSourcePerf =>
      /\ {source_perf[k].SourceResult : k \in 1..Len(source_perf)} = Range(SourceCol(df_f))
      /\ \A k \in 1..Len(source_perf) :
           LET p == source_perf[k]
               ce == p.Cost_Efficiency
               dr == p.Duplicate_Rate
               rows == {i \in 1..Len(df_f) : df_f[i].SourceResult = p.SourceResult}
           IN /\ ce.den = Cardinality(rows)
              /\ ce.num = Cardinality({df_f[i].Nik : i \in rows})
              /\ ce.den > 0
              /\ 0 < ce.num /\ ce.num <= ce.den
              /\ dr.num * ce.den + ce.num * dr.den = dr.den * ce.den

\* A source with a repeated NIK (Cost_Efficiency below 1) beside a source
\* without one.
C9_Witness ==
    /\ AfterSourcePerf
    /\ \E k \in 1..Len(source_perf) :
         source_perf[k].Cost_Efficiency.num < source_perf[k].Cost_Efficiency.den
    /\ \E k \in 1..Len(source_perf) :
         source_perf[k].Cost_Efficiency.num = source_perf[k].Cost_Efficiency.den

AfterFilter == pc /= "filter"

\* C3: when no event passes the filter, no step raises.
C3_EmptyFilterNoError ==
    (AfterFilter /\ df_f = <<>>) => raised = ""

AfterKpi == pc \notin {"filter", "classify", "kpi"}

AfterHourly ==
    pc \notin {"filter", "classify", "kpi", "source_perf", "field_acc", "hourly", "raised"}

AfterRapid == pc \in {"cross", "insights", "done"}

\* The positions of the loaded frame whose source is selected and whose
\* CreatedDate is in the date range, or, with keep_unparsed, did not parse.
Selected(keep_unparsed) ==
    {i \in 1..Len(df) :
        /\ df[i].SourceResult \in source_filter
        /\ \/ keep_unparsed /\ df[i].CreatedDate = NaT
           \/ /\ df[i].CreatedDate /= NaT
              /\ date_range[1] <= DateOf(df[i].CreatedDate)
              /\ DateOf(df[i].CreatedDate) <= date_range[2]}

\* total requests, per-NIK hit counts and per-source Total_Requests count
\* exactly the rows at the positions S of the loaded frame.
RowCountsCover(S) ==
    /\ AfterKpi =>
         /\ kpi.total_requests = Cardinality(S)
         /\ DOMAIN nik_counts = {df[i].Nik : i \in S}
         /\ \A n \in DOMAIN nik_counts :
               nik_counts[n] = Cardinality({i \in S : df[i].Nik = n})
    /\ AfterSourcePerf =>
         \A k \in 1..Len(source_perf) :
            source_perf[k].Total_Requests =
              Cardinality({i \in S : df[i].SourceResult = source_perf[k].SourceResult})

\* No row without a parsed CreatedDate is in the filtered frame, the hourly
\* buckets, the rapid-fire frame or the frames the degradation scan walks.
UnparsedLeftOut ==
    /\ AfterFilter => \A k \in 1..Len(df_f) : df_f[k].CreatedDate /= NaT
    /\ AfterHourly => SumSeq(TotalRequestCol(hourly)) = Cardinality(Selected(FALSE))
    /\ AfterRapid => Len(df_f_sorted) = Cardinality(Selected(FALSE))
    /\ AfterDegradation =>
         \A n \in DOMAIN df_nik_check : \A k \in 1..Len(df_nik_check[n]) :
            df_nik_check[n][k].CreatedDate /= NaT

\* C6 as stated: a row whose CreatedDate did not parse is left out of the
\* time-ordered analyses but counted in total requests, per-NIK hit counts
\* and per-source Total_Requests.
C6_UnparsedStillCounted == UnparsedLeftOut /\ RowCountsCover(Selected(TRUE))

\* C6 amended: a row whose CreatedDate did not parse is left out of the
\* filtered frame, so of the time-ordered analyses and equally of total
\* requests, per-NIK hit counts and per-source Total_Requests, which count
\* only the rows with a selected source and a date in the range.
C6_UnparsedLeftOutEverywhere == UnparsedLeftOut /\ RowCountsCover(Selected(FALSE))

\* A run past the source performance step whose frame holds a row of a
\* selected source without a parsed date, beside a row that passes.
C6_Witness ==
    /\ AfterSourcePerf
    /\ Len(df_f) > 0
    /\ \E i \in 1..Len(df) :
         df[i].CreatedDate = NaT /\ df[i].SourceResult \in source_filter

\* The predecessors of position k in df_f under the order of the rapid-fire
\* sort within a NIK: earlier CreatedDate, or the same and earlier in df_f.
Predecessors(k) ==
    {j \in 1..Len(df_f) :
        /\ j /= k
        /\ df_f[j].Nik = df_f[k].Nik
        /\ \/ df_f[j].CreatedDate < df_f[k].CreatedDate
           \/ df_f[j].CreatedDate = df_f[k].CreatedDate /\ j < k}

FlaggedIds == {rapid_fire[k].row.Id : k \in 1..Len(rapid_fire)}

\* C7: an event is flagged exactly when it has a predecessor of its NIK and
\* the gap to the latest of them is under 5 seconds: a gap of exactly 5 is not
\* flagged, a gap below 5, 0 included, is, and the first event of a NIK never.
C7_RapidFireBoundary ==
    AfterRapid =>
      /\ Len(rapid_fire) = Cardinality(FlaggedIds)
      /\ \A k \in 1..Len(df_f) :
           LET gaps == {df_f[k].CreatedDate - df_f[j].CreatedDate : j \in Predecessors(k)}
           IN /\ df_f[k].Id \in FlaggedIds <=>
                   (gaps /= {} /\ MinOf(gaps) < 5)
              /\ (gaps /= {} /\ MinOf(gaps) = 5) => df_f[k].Id \notin FlaggedIds
              /\ (gaps /= {} /\ MinOf(gaps) \in 0..4) => df_f[k].Id \in FlaggedIds
              /\ gaps = {} => df_f[k].Id \notin FlaggedIds

\* One NIK with events at 0, 5 and 9 seconds: the second, 5 seconds after
\* the first, is not flagged and the third, 4 seconds later, is.
C7_Witness ==
    /\ AfterRapid
    /\ \E a, b, c \in 1..Len(df_f) :
         /\ df_f[a].Nik = df_f[b].Nik /\ df_f[b].Nik = df_f[c].Nik
         /\ df_f[a].CreatedDate = 0 /\ df_f[b].CreatedDate = 5 /\ df_f[c].CreatedDate = 9
         /\ df_f[a].Id \notin FlaggedIds
         /\ df_f[b].Id \notin FlaggedIds
         /\ df_f[c].Id \in FlaggedIds

AfterAnomaly ==
    pc \in {"same_app", "degradation", "rapid_fire", "cross", "insights", "done"}

RECURSIVE SumOver(_, _)
SumOver(f, S) ==
    IF S = {} THEN 0
    ELSE LET x == CHOOSE y \in S : TRUE IN f[x] + SumOver(f, S \ {x})

\* The number of filtered events in hour h.
EventsInHour(h) == Cardinality({i \in 1..Len(df_f) : HourOf(df_f[i].CreatedDate) = h})

\* count > mean + 2*stddev for the bucket of hour h among the buckets of the
\* hours H, the variance being the sum of squared deviations over divisor:
\* with n = |H| and S the sum of the counts, n*count - S > 0 and
\* divisor * (n*count - S)^2 > 4 * sum over H of (n*count_g - S)^2.
AboveTwoSigma(h, H, divisor) ==
    LET n == Cardinality(H)
        total == SumOver([g \in H |-> EventsInHour(g)], H)
        dev == [g \in H |-> n * EventsInHour(g) - total]
    IN /\ divisor > 0
       /\ dev[h] > 0
       /\ divisor * dev[h] * dev[h] > 4 * SumOver([g \in H |-> dev[g] * dev[g]], H)

FlaggedHours == {hourly[k].Hour : k \in {j \in 1..Len(hourly) : hourly[j].Anomaly}}

\* C4 as stated: there is a bucket for each of the 24 hours, an hour without
\* event having count 0, and a bucket is flagged exactly when its count is
\* above mean + 2*stddev, mean and population standard deviation being taken
\* over the 24 counts.
C4_AllDayPopulationRule ==
    AfterAnomaly =>
      /\ [k \in 1..Len(hourly) |-> hourly[k].Hour] = Ascending(0..23)
      /\ \A k \in 1..Len(hourly) : hourly[k].Total_Request = EventsInHour(hourly[k].Hour)
      /\ FlaggedHours = {h \in 0..23 : AboveTwoSigma(h, 0..23, 24)}

\* C4 amended: there is a bucket for each hour of day that has an event and
\* none for the others; mean and sample standard deviation (divisor n - 1)
\* are taken over the counts of these n buckets, and a bucket is flagged
\* exactly when its count is above mean + 2*stddev; with one bucket none is.
C4_PresentHoursSampleRule ==
    AfterAnomaly =>
      LET present == {h \in 0..23 : EventsInHour(h) > 0}
      IN /\ [k \in 1..Len(hourly) |-> hourly[k].Hour] = Ascending(present)
         /\ \A k \in 1..Len(hourly) : hourly[k].Total_Request = EventsInHour(hourly[k].Hour)
         /\ FlaggedHours = {h \in present :
                              AboveTwoSigma(h, present, Cardinality(present) - 1)}
         /\ Cardinality(present) = 1 => FlaggedHours = {}

\* A run in which a bucket is flagged.
C4_Witness ==
    /\ AfterAnomaly
    /\ FlaggedHours /= {}
    /\ Len(hourly) < 24

AfterClassify == pc \notin {"filter", "classify"}

\* C10: the NIKs given a category are those with a DB_CACHE event; each has
\* one of the five categories and is a member of that category and of no
\* other; the member sets are pairwise disjoint and their union is the set of
\* these NIKs.
C10_ClassificationPartition ==
    AfterClassify =>
      LET eligible == {df_f[i].Nik : i \in {j \in 1..Len(df_f) : df_f[j].SourceResult = "DB_CACHE"}}
          result == classification.result
          members == classification.members
      IN /\ DOMAIN result = eligible
         /\ DOMAIN members = {"DirectCache", "CacheViaBCA", "CacheViaDukcapil",
                              "CacheViaDukcapilThenBCA", "Unclassified"}
         /\ \A n \in eligible :
               /\ result[n] \in DOMAIN members
               /\ {cat \in DOMAIN members : n \in members[cat]} = {result[n]}
         /\ \A a \in DOMAIN members : \A b \in DOMAIN members :
               a /= b => members[a] \cap members[b] = {}
         /\ UNION {members[cat] : cat \in DOMAIN members} = eligible

\* A NIK that went DUKCAPIL, BCA, DB_CACHE, classified
\* CacheViaDukcapilThenBCA.
C10_Witness ==
    /\ AfterClassify
    /\ \E n \in DOMAIN classification.result :
         /\ classification.result[n] = "CacheViaDukcapilThenBCA"
         /\ SourceSequence(df_f, n) = <<"DUKCAPIL", "BCA", "DB_CACHE">>

\* Unique NIKs over requests of one source of the filtered set, compared by
\* cross-multiplication: a is at most b.
EfficiencyAtMost(a, b) ==
    Cardinality({df_f[i].Nik : i \in {j \in 1..Len(df_f) : df_f[j].SourceResult = a}})
        * Cardinality({j \in 1..Len(df_f) : df_f[j].SourceResult = b})
    <= Cardinality({df_f[i].Nik : i \in {j \in 1..Len(df_f) : df_f[j].SourceResult = b}})
        * Cardinality({j \in 1..Len(df_f) : df_f[j].SourceResult = a})

\* The number of filtered rows whose field f is "Sesuai" (the match rate of f
\* times the number of rows).
SesuaiCount(f) == Cardinality({i \in 1..Len(df_f) : df_f[i].st[f] = "Sesuai"})

\* C11: once the insights are built (the filtered set is then not empty), the
\* worst source is a source of the filtered set whose Cost_Efficiency is at
\* most that of every source, the best source one whose Cost_Efficiency is at
\* least that of every source, the worst field a tracked field whose match
\* rate is at most that of every tracked field, and the peak hour a bucket
\* whose request count is at least the number of events of every hour.
C11_InsightSelection ==
    pc = "done" =>
      /\ df_f /= <<>>
      /\ insights.worst_source.SourceResult \in Range(SourceCol(df_f))
      /\ insights.best_source.SourceResult \in Range(SourceCol(df_f))
      /\ \A src \in Range(SourceCol(df_f)) :
            /\ EfficiencyAtMost(insights.worst_source.SourceResult, src)
            /\ EfficiencyAtMost(src, insights.best_source.SourceResult)
      /\ insights.worst_field.Field \in StatusFields
      /\ \A f \in StatusFields : SesuaiCount(insights.worst_field.Field) <= SesuaiCount(f)
      /\ insights.peak_hour.Total_Request = EventsInHour(insights.peak_hour.Hour)
      /\ \A h \in 0..23 : EventsInHour(h) <= insights.peak_hour.Total_Request

\* Insights built over two sources of different Cost_Efficiency, one field
\* less accurate than another and two hours of different counts, the worst
\* source and the busiest hour not being the first of their frames.
C11_Witness ==
    /\ pc = "done"
    /\ Len(source_perf) = 2
    /\ insights.worst_source = source_perf[2]
    /\ insights.best_source = source_perf[1]
    /\ ~EfficiencyAtMost(insights.best_source.SourceResult, insights.worst_source.SourceResult)
    /\ \E f \in StatusFields : SesuaiCount(insights.worst_field.Field) < SesuaiCount(f)
    /\ Len(hourly) = 2
    /\ insights.peak_hour.Hour = hourly[2].Hour
    /\ hourly[1].Total_Request < hourly[2].Total_Request

\* The hours of day holding at least one filtered event.
PresentHours == {h \in 0..23 : EventsInHour(h) > 0}

\* C12: once the anomaly column is computed, if every hour bucket (every
\* hour holding an event) has the same number of events, no bucket is flagged.
C12_ZeroVarianceNoAnomaly ==
    AfterAnomaly =>
      ((\A g, h \in PresentHours : EventsInHour(g) = EventsInHour(h))
         => \A k \in 1..Len(hourly) : ~hourly[k].Anomaly)

\* Several buckets of one same count, two events each, and none flagged.
C12_Witness ==
    /\ AfterAnomaly
    /\ Len(hourly) >= 3
    /\ \A k \in 1..Len(hourly) : hourly[k].Total_Request = 2 /\ ~hourly[k].Anomaly
    /\ \A h \in PresentHours : EventsInHour(h) = 2

\* The number of rapid-fire flagged events of NIK n.
RapidHitsOf(n) == Cardinality({k \in 1..Len(rapid_fire) : rapid_fire[k].row.Nik = n})

\* The number of filtered events of NIK n.
EventsOfNik(n) == Cardinality({i \in 1..Len(df_f) : df_f[i].Nik = n})

\* C14: once the rapid-fire scan has run, each NIK of the filtered set has at
\* most its event count minus one flagged events (in rapid_fire and in the
\* Rapid_Hits of rapid_summary), and the total number of flagged events is at
\* most duplicate_requests = total_requests - total_nik.
C14_RapidFireWithinDuplicates ==
    AfterRapid =>
      /\ \A n \in NiksOf(df_f) : RapidHitsOf(n) <= EventsOfNik(n) - 1
      /\ \A k \in 1..Len(rapid_fire) : rapid_fire[k].row.Nik \in NiksOf(df_f)
      /\ Len(rapid_fire) > 0 =>
            \A n \in DOMAIN rapid_summary :
               rapid_summary[n].Rapid_Hits <= EventsOfNik(n) - 1
      /\ kpi.duplicate_requests = Len(df_f) - Cardinality(NiksOf(df_f))
      /\ Len(rapid_fire) <= kpi.duplicate_requests

\* Two NIKs, one with a single event (none flagged) and one with two events
\* whose second is flagged: the bound is reached.
C14_Witness ==
    /\ AfterRapid
    /\ Cardinality(NiksOf(df_f)) = 2
    /\ \E n \in NiksOf(df_f) : EventsOfNik(n) = 2 /\ RapidHitsOf(n) = 1
    /\ Len(rapid_fire) = kpi.duplicate_requests
    /\ kpi.duplicate_requests = 1

\* The NIKs of the filtered set holding exactly c events, or more than c.
NiksWithHits(c) == {n \in {df_f[i].Nik : i \in 1..Len(df_f)} : EventsOfNik(n) = c}
NiksWithMoreHits(c) == {n \in {df_f[i].Nik : i \in 1..Len(df_f)} : EventsOfNik(n) > c}

\* A rate that is defined and equal to 0.
IsZeroRate(r) == r.num = 0 /\ r.den > 0

\* C13: once the KPIs are computed, total_nik is the number of NIKs of the
\* filtered set, nik_hit_1 and nik_hit_gt1 count its NIKs with one event and
\* with more and add up to total_nik, high_risk_nik counts the NIKs with more
\* than 5 events and is at most nik_hit_gt1, duplicate_requests is
\* total_requests - total_nik and is not negative; with no NIK or no request
\* pct_hit_1, pct_hit_gt1, duplicate_rate, risk_rate and quality_score are 0.
C13_KpiPartition ==
    AfterKpi =>
      /\ kpi.total_nik = Cardinality({df_f[i].Nik : i \in 1..Len(df_f)})
      /\ kpi.total_requests = Len(df_f)
      /\ kpi.nik_hit_1 = Cardinality(NiksWithHits(1))
      /\ kpi.nik_hit_gt1 = Cardinality(NiksWithMoreHits(1))
      /\ kpi.nik_hit_1 + kpi.nik_hit_gt1 = kpi.total_nik
      /\ kpi.high_risk_nik = Cardinality(NiksWithMoreHits(5))
      /\ kpi.high_risk_nik <= kpi.nik_hit_gt1
      /\ kpi.duplicate_requests = kpi.total_requests - kpi.total_nik
      /\ kpi.duplicate_requests >= 0
      /\ (kpi.total_nik = 0 \/ kpi.total_requests = 0) =>
            /\ IsZeroRate(kpi.pct_hit_1)
            /\ IsZeroRate(kpi.pct_hit_gt1)
            /\ IsZeroRate(kpi.duplicate_rate)
            /\ IsZeroRate(kpi.risk_rate)
            /\ IsZeroRate(kpi.quality_score)

\* KPIs over a NIK with one event, a NIK with exactly 5 events (repeated, not
\* high risk) and a NIK with 6 (high risk).
C13_Witness ==
    /\ AfterKpi
    /\ NiksWithHits(1) /= {}
    /\ NiksWithHits(5) /= {}
    /\ NiksWithHits(6) /= {}
    /\ kpi.nik_hit_1 = 1
    /\ kpi.nik_hit_gt1 = 2
    /\ kpi.high_risk_nik = 1
    /\ kpi.duplicate_requests = 9

====
